---- MODULE Spec2Model ----
(***************************************************************************)
(* Model of the ipm send path: the Sender contract (Sender.hpp) and the    *)
(* ZeroMQ backend ZmqSenderImpl (ZmqSenderImpl.hpp).                       *)
(*                                                                         *)
(* Durations are 64-bit signed tick counts.  They are kept as sequences of *)
(* eight bytes, least significant first (two's complement), so that        *)
(* duration_t::max() and the millisecond -> nanosecond conversion of the   *)
(* loop test keep their width.                                             *)
(***************************************************************************)
EXTENDS Integers, Sequences, FiniteSets, TLC

\* ---------------------------------------------------------------- bounds
MaxClock == 2       \* the steady clock is observed up to this many ms
MaxMessages == 1    \* no new delivery starts once this many were counted
MaxSize == 2        \* largest byte count passed to send
FiniteTimeout == 2  \* the finite, non-zero timeout callers pass (ms)

\* ------------------------------------------------------- program constants
NsPerMs == 1000000       \* std::milli / std::nano, applied by operator<
ZMQ_SNDTIMEO_VALUE == 1  \* setsockopt(ZMQ_SNDTIMEO, 1)
ZMQ_SNDTIMEO_DEFAULT == -1 \* the socket's send timeout before setsockopt

Threads == {"t1", "t2"}
NULL == "NULL"
Buffer == "buf"

\* ------------------------------------------------- 64-bit duration values
RECURSIVE NatBytes(_, _)
\* the k low bytes of the natural n, least significant first
NatBytes(n, k) == IF k = 0 THEN <<>> ELSE <<n % 256>> \o NatBytes(n \div 256, k - 1)

\* duration_t(n): n milliseconds as a 64-bit count
Ms(n) == NatBytes(n, 8)

\* Sender::s_block = duration_t::max() = 2^63 - 1 ms
s_block == [i \in 1..8 |-> IF i = 8 THEN 127 ELSE 255]

\* Sender::s_no_block = duration_t::zero()
s_no_block == Ms(0)

RECURSIVE MulBytes(_, _, _)
\* bytes * factor + carry, every byte of the exact product (three more bytes
\* than the operand hold the carry out of the top byte)
MulBytes(bytes, factor, carry) ==
  IF bytes = <<>>
  THEN NatBytes(carry, 3)
  ELSE LET p == Head(bytes) * factor + carry
       IN  <<p % 256>> \o MulBytes(Tail(bytes), factor, p \div 256)

\* the exact product of a non-negative millisecond count by 10^6
ExactNs(ms) == MulBytes(ms, NsPerMs, 0)

\* duration_cast<nanoseconds>(ms) leaves the range of a 64-bit signed count
CastOverflows(ms) ==
  LET p == ExactNs(ms) IN p[8] >= 128 \/ \E i \in 9..11 : p[i] # 0

\* the 64 low bits of the product: what a wrapping multiply leaves
WrappedNs(ms) == SubSeq(ExactNs(ms), 1, 8)

IsNegative(d) == d[8] >= 128

RECURSIVE UnsignedLess(_, _, _)
UnsignedLess(a, b, i) ==
  IF i = 0 THEN FALSE
  ELSE IF a[i] # b[i] THEN a[i] < b[i]
  ELSE UnsignedLess(a, b, i - 1)

\* a < b on 64-bit two's complement counts
SignedLess(a, b) ==
  IF IsNegative(a) # IsNegative(b) THEN IsNegative(a) ELSE UnsignedLess(a, b, 8)

\* steady_clock::now() - start_time, in the clock's unit (ns)
Elapsed(now_ms, start_ms) == NatBytes((now_ms - start_ms) * NsPerMs, 8)

\* The values `now - start_time < timeout` can take.  The millisecond
\* timeout is converted to nanoseconds first; when that multiplication
\* overflows the signed 64-bit count the behaviour is undefined: a wrapping
\* build compares against the wrapped count, another build may yield either.
DurationLess(elapsed, timeout) ==
  IF CastOverflows(timeout)
  THEN {SignedLess(elapsed, WrappedNs(timeout))} \cup BOOLEAN
  ELSE {SignedLess(elapsed, WrappedNs(timeout))}

\* (int) timeout.count(): the low 32 bits stored in the issue's int field
IntField(timeout) == SubSeq(timeout, 1, 4)

\* -------------------------------------------------------------- messages
\* the N bytes read from the caller's buffer
Payload(message, N) == [i \in 1..N |-> i]

Metadata == {<<>>, <<"t">>}
Timeouts == {s_no_block, Ms(FiniteTimeout), s_block}
Sizes == 0..MaxSize

\* connection descriptors: sets of <<key, value>> pairs
Descriptors == {{}, {<<"connection_string", "tcp://127.0.0.1:5000">>}}

\* mutant: the descriptor is not consulted, the default is always used
JsonValue_IgnoresKey(desc, key, default) == default

\* nlohmann::json::value(key, default)
JsonValue(desc, key, default) ==
  IF \E p \in desc : p[1] = key
  THEN (CHOOSE p \in desc : p[1] = key)[2]
  ELSE default

VARIABLES
  m_socket_connected,   \* ZmqSenderImpl::m_socket_connected
  m_connection_string,  \* ZmqSenderImpl::m_connection_string
  setup,                \* "none" | "connected" | "bind_failed"
  socket_sndtimeo,      \* m_socket's ZMQ_SNDTIMEO option (ms, -1 = block)
  socket_endpoint,      \* the address m_socket is bound to ("" = unbound)
  chan,                 \* fragments m_socket accepted, in order
  m_bytes,              \* Sender::m_bytes
  m_messages,           \* Sender::m_messages
  now,                  \* steady clock (ms)
  pc,                   \* per thread: position in send / send_
  call,                 \* per thread: message and size of the current send
  deliv,                \* per thread: timeout, topic and mode send_ runs with
  start_time,           \* per thread: send_'s start_time
  res,                  \* per thread: send_'s res
  attempts,             \* per thread: two-part attempts send_ has begun
  seen,                 \* per thread: counters as read when send_ returned
  result                \* per thread: outcome of the finished send

vars == <<m_socket_connected, m_connection_string, setup, socket_sndtimeo,
          socket_endpoint, chan, m_bytes, m_messages, now, pc, call,
          deliv, start_time, res, attempts, seen, result>>

backend == <<m_socket_connected, m_connection_string, setup, socket_sndtimeo,
             socket_endpoint>>
counters == <<m_bytes, m_messages>>

NoCall == [message |-> NULL, N |-> 0]
NoDelivery == [invoked |-> FALSE, timeout |-> s_no_block, topic |-> <<>>,
               no_tmoexcept_mode |-> FALSE]
NoResult == [kind |-> "none", timeout |-> IntField(s_no_block)]
Outcome(kind) == [kind |-> kind, timeout |-> IntField(s_no_block)]

\* mutant: can_send() reports ready whatever the flag holds
can_send_AlwaysReady == TRUE

\* ZmqSenderImpl::can_send
can_send == m_socket_connected

\* The object after construction.  The constructor initialises m_socket
\* only: m_socket_connected has no initialiser, so its value is indeterminate.
Init ==
  /\ m_socket_connected \in BOOLEAN
  /\ m_connection_string = ""
  /\ setup = "none"
  /\ socket_sndtimeo = ZMQ_SNDTIMEO_DEFAULT
  /\ socket_endpoint = ""
  /\ chan = <<>>
  /\ m_bytes = 0
  /\ m_messages = 0
  /\ now = 0
  /\ pc = [t \in Threads |-> "idle"]
  /\ call = [t \in Threads |-> NoCall]
  /\ deliv = [t \in Threads |-> NoDelivery]
  /\ start_time = [t \in Threads |-> 0]
  /\ res = [t \in Threads |-> FALSE]
  /\ attempts = [t \in Threads |-> 0]
  /\ seen = [t \in Threads |-> <<0, 0>>]
  /\ result = [t \in Threads |-> NoResult]

\* ZmqSenderImpl::connect_for_sends; bind either succeeds or throws
connect_for_sends(desc) ==
  /\ setup = "none"
  /\ m_connection_string' = JsonValue(desc, "connection_string", "inproc://default")
  /\ socket_sndtimeo' = ZMQ_SNDTIMEO_VALUE
  /\ \/ /\ socket_endpoint' = m_connection_string'
        /\ m_socket_connected' = TRUE
        /\ setup' = "connected"
     \/ /\ setup' = "bind_failed"
        /\ UNCHANGED <<socket_endpoint, m_socket_connected>>
  /\ UNCHANGED <<chan, counters, now, pc, call, deliv, start_time, res, attempts, seen, result>>

\* a thread is inside send_, between recording start_time and leaving the loop
InDelivery(t) == pc[t] \in {"topic", "payload", "check"}

\* Time passes.  The clock is read inside send_ only, so time that passes
\* while no delivery is in progress is not observable and is left out.
Tick ==
  /\ \E t \in Threads : InDelivery(t)
  /\ now < MaxClock
  /\ now' = now + 1
  /\ UNCHANGED <<backend, chan, counters, pc, call, deliv, start_time, res, attempts, seen, result>>


\* ------------------------------------------------------------ Sender::send
\* mutant: the null-buffer check is missing
Precheck_NoNullCheck(ready, message, N) ==
  IF ~ready THEN "NotReady"
  ELSE IF N = 0 THEN "true"
  ELSE "deliver"

\* mutant: a zero-size message is handed to send_ like any other
Precheck_ZeroDelivered(ready, message, N) ==
  IF ~ready THEN "NotReady"
  ELSE IF message = NULL /\ N # 0 THEN "InvalidArgument"
  ELSE "deliver"

\* mutant: the size and the buffer are looked at before readiness
Precheck_ArgumentsFirst(ready, message, N) ==
  IF N = 0 THEN "true"
  ELSE IF message = NULL THEN "InvalidArgument"
  ELSE IF ~ready THEN "NotReady"
  ELSE "deliver"

\* The checks send performs before it calls send_, in the documented order:
\* readiness, null buffer with a non-zero size, zero size.
Precheck(ready, message, N) ==
  IF ~ready THEN "NotReady"
  ELSE IF message = NULL /\ N # 0 THEN "InvalidArgument"
  ELSE IF N = 0 THEN "true"
  ELSE "deliver"

\* send(message, N, timeout, metadata, no_tmoexcept_mode) up to the call of
\* send_, whose first statement records start_time
Send(t, message, N, timeout, metadata, ntm) ==
  /\ pc[t] = "idle"
  /\ LET v == Precheck(can_send, message, N)
     IN  /\ call' = [call EXCEPT ![t] = [message |-> message, N |-> N]]
         /\ IF v = "deliver"
            THEN /\ m_messages < MaxMessages
                 /\ pc' = [pc EXCEPT ![t] = "topic"]
                 /\ deliv' = [deliv EXCEPT ![t] = [invoked |-> TRUE,
                        timeout |-> timeout, topic |-> metadata,
                        no_tmoexcept_mode |-> ntm]]
                 /\ start_time' = [start_time EXCEPT ![t] = now]
                 /\ res' = [res EXCEPT ![t] = FALSE]
                 /\ attempts' = [attempts EXCEPT ![t] = 0]
                 /\ UNCHANGED result
            ELSE /\ pc' = [pc EXCEPT ![t] = "done"]
                 /\ result' = [result EXCEPT ![t] = Outcome(v)]
                 /\ UNCHANGED <<deliv, start_time, res, attempts>>
  /\ UNCHANGED <<backend, chan, counters, now, seen>>

\* ---------------------------------------------------- ZmqSenderImpl::send_
\* What m_socket.send can return: with a send timeout set it gives up after
\* that long and returns false; with none it blocks until the part is taken.
SocketSendResults == IF socket_sndtimeo < 0 THEN {TRUE} ELSE BOOLEAN

\* res = m_socket.send(topic_msg, ZMQ_SNDMORE); if (!res) continue;
SendTopic(t) ==
  /\ pc[t] = "topic"
  /\ attempts' = [attempts EXCEPT ![t] = @ + 1]
  /\ \E ok \in SocketSendResults :
       /\ res' = [res EXCEPT ![t] = ok]
       /\ IF ok
          THEN /\ chan' = Append(chan, [data |-> deliv[t].topic, more |-> TRUE])
               /\ pc' = [pc EXCEPT ![t] = "payload"]
               /\ UNCHANGED now
          ELSE /\ now + socket_sndtimeo <= MaxClock
               /\ now' = now + socket_sndtimeo
               /\ pc' = [pc EXCEPT ![t] = "check"]
               /\ UNCHANGED chan
  /\ UNCHANGED <<backend, counters, call, deliv, start_time, seen, result>>

\* zmq::message_t msg(message, N); res = m_socket.send(msg);
SendPayload(t) ==
  /\ pc[t] = "payload"
  /\ \E ok \in SocketSendResults :
       /\ res' = [res EXCEPT ![t] = ok]
       /\ IF ok
          THEN /\ chan' = Append(chan, [data |-> Payload(call[t].message, call[t].N),
                                        more |-> FALSE])
               /\ UNCHANGED now
          ELSE /\ now + socket_sndtimeo <= MaxClock
               /\ now' = now + socket_sndtimeo
               /\ UNCHANGED chan
  /\ pc' = [pc EXCEPT ![t] = "check"]
  /\ UNCHANGED <<backend, counters, call, deliv, start_time, attempts, seen, result>>

\* mutant: the elapsed-time test is missing from the loop condition
LoopContinues_NoDeadline(less, r) == ~r

\* while (std::chrono::steady_clock::now() - start_time < timeout && !res)
LoopContinues(less, r) == less /\ ~r

\* mutant: send_ throws whenever the loop has ended, whatever the last
\* attempt gave
Throws_Always(r) == TRUE

\* mutant: send_ returns normally after a failed last attempt
Throws_Never(r) == FALSE

\* if (!res) throw SendTimeoutExpired(ERS_HERE, timeout.count());
Throws(r) == ~r

\* the issue send_ throws
SendTimeoutExpired(timeout) == [kind |-> "TimeoutExpired", timeout |-> IntField(timeout)]

\* what send makes of the issue send_ threw
OnTimeout(ntm, issue) == IF ntm THEN Outcome("false") ELSE issue

\* mutant: the byte counter counts calls, not bytes
FetchAdd_One(current, earlier, n) == current + 1

\* mutant: a plain load, add and store: the sum is built on the value the
\* thread read earlier, whatever other threads stored since
FetchAdd_NotAtomic(current, earlier, n) == earlier + n

\* m_bytes += n on a std::atomic: one read-modify-write of the current
\* value; the value the thread read earlier plays no part
FetchAdd(current, earlier, n) == current + n

\* mutant: a send_ that runs out of time marks the socket as not connected
LoopCheck_Disconnects(t) ==
  /\ pc[t] = "check"
  /\ \E less \in DurationLess(Elapsed(now, start_time[t]), deliv[t].timeout) :
       IF LoopContinues(less, res[t])
       THEN /\ pc' = [pc EXCEPT ![t] = "topic"]
            /\ UNCHANGED <<attempts, seen, result, m_socket_connected>>
       ELSE IF Throws(res[t])
       THEN /\ pc' = [pc EXCEPT ![t] = "done"]
            /\ m_socket_connected' = FALSE
            /\ result' = [result EXCEPT ![t] =
                 OnTimeout(deliv[t].no_tmoexcept_mode, SendTimeoutExpired(deliv[t].timeout))]
            /\ UNCHANGED <<attempts, seen>>
       ELSE /\ pc' = [pc EXCEPT ![t] = "add_bytes"]
            /\ seen' = [seen EXCEPT ![t] = <<m_bytes, m_messages>>]
            /\ UNCHANGED <<attempts, result, m_socket_connected>>
  /\ UNCHANGED <<m_connection_string, setup, socket_sndtimeo, socket_endpoint,
                 chan, counters, now, call, deliv, start_time, res>>

\* the loop test, and what follows the loop
LoopCheck(t) ==
  /\ pc[t] = "check"
  /\ \E less \in DurationLess(Elapsed(now, start_time[t]), deliv[t].timeout) :
       IF LoopContinues(less, res[t])
       THEN /\ pc' = [pc EXCEPT ![t] = "topic"]
            /\ UNCHANGED <<attempts, seen, result>>
       ELSE IF Throws(res[t])
       THEN /\ pc' = [pc EXCEPT ![t] = "done"]
            /\ result' = [result EXCEPT ![t] =
                 OnTimeout(deliv[t].no_tmoexcept_mode, SendTimeoutExpired(deliv[t].timeout))]
            /\ UNCHANGED <<attempts, seen>>
       ELSE /\ pc' = [pc EXCEPT ![t] = "add_bytes"]
            /\ seen' = [seen EXCEPT ![t] = <<m_bytes, m_messages>>]
            /\ UNCHANGED <<attempts, result>>
  /\ UNCHANGED <<backend, chan, counters, now, call, deliv, start_time, res>>

\* send after send_ returned: m_bytes += message_size
AddBytes(t) ==
  /\ pc[t] = "add_bytes"
  /\ m_bytes' = FetchAdd(m_bytes, seen[t][1], call[t].N)
  /\ pc' = [pc EXCEPT ![t] = "add_messages"]
  /\ UNCHANGED <<backend, chan, m_messages, now, call, deliv, start_time, res,
                 attempts, seen, result>>

\* ++m_messages; return true
AddMessages(t) ==
  /\ pc[t] = "add_messages"
  /\ m_messages' = FetchAdd(m_messages, seen[t][2], 1)
  /\ pc' = [pc EXCEPT ![t] = "done"]
  /\ result' = [result EXCEPT ![t] = Outcome("true")]
  /\ UNCHANGED <<backend, chan, m_bytes, now, call, deliv, start_time, res, attempts,
                 seen>>

\* the caller has the outcome of send and goes on; send's locals are gone
Return(t) ==
  /\ pc[t] = "done"
  /\ pc' = [pc EXCEPT ![t] = "idle"]
  /\ call' = [call EXCEPT ![t] = NoCall]
  /\ deliv' = [deliv EXCEPT ![t] = NoDelivery]
  /\ start_time' = [start_time EXCEPT ![t] = 0]
  /\ res' = [res EXCEPT ![t] = FALSE]
  /\ attempts' = [attempts EXCEPT ![t] = 0]
  /\ seen' = [seen EXCEPT ![t] = <<0, 0>>]
  /\ result' = [result EXCEPT ![t] = NoResult]
  /\ UNCHANGED <<backend, chan, counters, now>>

Connect == \E desc \in Descriptors : connect_for_sends(desc)

\* a caller makes any call of send
CallSend(t) ==
  \E message \in {NULL, Buffer}, N \in Sizes, timeout \in Timeouts,
     metadata \in Metadata, ntm \in BOOLEAN :
       Send(t, message, N, timeout, metadata, ntm)

\* a caller sends a non-empty message without waiting
CallSendNoBlock(t) ==
  \E N \in 1..MaxSize : Send(t, Buffer, N, s_no_block, <<>>, TRUE)

\* One caller at a time: the single-writer discipline the socket requires.
Next ==
  \/ Connect
  \/ Tick
  \/ CallSend("t1")
  \/ SendTopic("t1")
  \/ SendPayload("t1")
  \/ LoopCheck("t1")
  \/ AddBytes("t1")
  \/ AddMessages("t1")
  \/ Return("t1")

Spec == Init /\ [][Next]_vars

\* Every thread makes one call of send on the same Sender, with no
\* serialisation between the threads.
NextConc ==
  \/ Connect
  \/ \E t \in Threads :
       \/ CallSendNoBlock(t)
       \/ SendTopic(t)
       \/ SendPayload(t)
       \/ LoopCheck(t)
       \/ AddBytes(t)
       \/ AddMessages(t)

SpecConc == Init /\ [][NextConc]_vars

\* m_socket.send returns within the send timeout once one is set
\* (connect_for_sends sets 1 ms); with none set it returns only when the
\* socket takes the part, which may be never
SendReturns == socket_sndtimeo >= 0

\* The calling thread keeps running: the loop test is reached, and a socket
\* send that has a send timeout returns.
Fairness ==
  /\ WF_vars(LoopCheck("t1"))
  /\ WF_vars(SendReturns /\ SendTopic("t1"))
  /\ WF_vars(SendReturns /\ SendPayload("t1"))

\* a caller sends one byte with a finite timeout
CallSendFinite(t) ==
  \E timeout \in Timeouts \ {s_block} : Send(t, Buffer, 1, timeout, <<>>, FALSE)

\* One caller, sends with a finite timeout only.
NextFinite ==
  \/ connect_for_sends({})
  \/ Tick
  \/ CallSendFinite("t1")
  \/ SendTopic("t1")
  \/ SendPayload("t1")
  \/ LoopCheck("t1")
  \/ AddBytes("t1")
  \/ AddMessages("t1")
  \/ Return("t1")

SpecFair == Init /\ [][NextFinite]_vars /\ Fairness

\* ================================================================ claims

\* a call of send by thread t begins (and, when a check fails, ends) in this step
Called(t) == pc[t] = "idle" /\ pc'[t] # "idle"

\* the call of t ended in send's own checks: send_ was not invoked and nothing
\* but the outcome changed
EndedAtCheck(t, kind) ==
  /\ pc'[t] = "done"
  /\ result'[t].kind = kind
  /\ ~deliv'[t].invoked
  /\ attempts'[t] = 0
  /\ m_bytes' = m_bytes
  /\ m_messages' = m_messages
  /\ chan' = chan

\* C1: before any connect_for_sends call, can_send() is false, and every send
\* fails with NotReady and makes no send attempt on the socket.
C1_FreshBackendRejectsSend ==
  setup = "none" =>
    /\ ~can_send
    /\ chan = <<>>
    /\ \A t \in Threads :
         /\ ~deliv[t].invoked
         /\ result[t].kind \in {"none", "NotReady"}

\* C2: whenever the ready flag that can_send() returns is false, send fails
\* at once with NotReady, send_ is not invoked and both counters keep their
\* values.
C2_NotReadyFailsFast ==
  [][\A t \in Threads :
       (Called(t) /\ ~m_socket_connected) => EndedAtCheck(t, "NotReady")]_vars

C2_Witness ==
  \E t \in Threads :
    /\ pc[t] = "done"
    /\ result[t].kind = "NotReady"
    /\ ~m_socket_connected
    /\ call[t].N > 0

\* C3: on a ready sender, send with a null buffer and a non-zero byte count
\* fails with InvalidArgument, never invokes send_ and leaves both counters
\* unchanged.
C3_NullBufferRejected ==
  [][\A t \in Threads :
       (Called(t) /\ m_socket_connected /\ call'[t].message = NULL /\ call'[t].N # 0)
         => EndedAtCheck(t, "InvalidArgument")]_vars

C3_Witness ==
  \E t \in Threads :
    /\ pc[t] = "done"
    /\ m_socket_connected
    /\ call[t].message = NULL
    /\ call[t].N > 0
    /\ result[t].kind = "InvalidArgument"

\* C4: on a ready sender, send with byte count zero returns true, leaves both
\* counters unchanged and never invokes send_ (no fragment reaches the
\* channel).
C4_ZeroSizeIsNoOp ==
  [][\A t \in Threads :
       (Called(t) /\ m_socket_connected /\ call'[t].N = 0)
         => EndedAtCheck(t, "true")]_vars

C4_Witness ==
  \E t \in Threads :
    /\ pc[t] = "done"
    /\ m_socket_connected
    /\ call[t].N = 0
    /\ result[t].kind = "true"
    /\ ~deliv[t].invoked

RECURSIVE DeliveredBytes(_)
\* bytes of the payload parts (the final parts) the socket accepted
DeliveredBytes(frags) ==
  IF frags = <<>> THEN 0
  ELSE (IF Head(frags).more THEN 0 ELSE Len(Head(frags).data))
       + DeliveredBytes(Tail(frags))

RECURSIVE DeliveredMessages(_)
\* number of payload parts the socket accepted: one per send_ that succeeded
DeliveredMessages(frags) ==
  IF frags = <<>> THEN 0
  ELSE (IF Head(frags).more THEN 0 ELSE 1) + DeliveredMessages(Tail(frags))

\* no call of send is between its first and its last step
Quiescent == \A t \in Threads : pc[t] \in {"idle", "done"}

\* C5: a send whose delivery succeeded adds exactly its size to the byte
\* counter and one to the message counter; every other outcome leaves both
\* unchanged; both counters never decrease.
C5_CountersFollowSuccess ==
  /\ [](Quiescent =>
          /\ m_bytes = DeliveredBytes(chan)
          /\ m_messages = DeliveredMessages(chan))
  /\ [][/\ m_bytes' >= m_bytes
        /\ m_messages' >= m_messages
        /\ m_bytes' # m_bytes =>
             \E t \in Threads : /\ pc[t] = "add_bytes"
                                /\ res[t]
                                /\ m_bytes' = m_bytes + call[t].N
        /\ m_messages' # m_messages =>
             \E t \in Threads : /\ pc[t] = "add_messages"
                                /\ res[t]
                                /\ m_messages' = m_messages + 1
        /\ \A t \in Threads :
             (pc'[t] = "done" /\ pc[t] # "done" /\ result'[t].kind # "true")
               => (m_bytes' = m_bytes /\ m_messages' = m_messages)
        /\ \A t \in Threads :
             (pc'[t] = "done" /\ pc[t] # "done" /\ result'[t].kind = "true"
                /\ deliv[t].invoked)
               => (m_bytes' = seen[t][1] + call[t].N /\ m_messages' = seen[t][2] + 1)
       ]_vars

C5_Witness ==
  \E t \in Threads :
    /\ pc[t] = "done"
    /\ result[t].kind = "true"
    /\ deliv[t].invoked
    /\ call[t].N = MaxSize
    /\ m_bytes = MaxSize
    /\ m_messages = 1

RECURSIVE SumSizes(_)
\* the sizes of the sends of the threads in S, added up
SumSizes(S) ==
  IF S = {} THEN 0
  ELSE LET t == CHOOSE x \in S : TRUE IN call[t].N + SumSizes(S \ {t})

\* the threads whose send went through send_ and returned true
Succeeded == {t \in Threads : pc[t] = "done" /\ deliv[t].invoked /\ result[t].kind = "true"}

\* C6: when the threads have sent concurrently and every send has ended, the
\* byte counter is the sum of the sizes of the sends that succeeded and the
\* message counter is their number, under every interleaving.
C6_NoLostUpdate ==
  Quiescent => /\ m_bytes = SumSizes(Succeeded)
               /\ m_messages = Cardinality(Succeeded)

C6_Witness ==
  /\ Succeeded = Threads
  /\ call["t1"].N # call["t2"].N
  /\ m_messages = Cardinality(Threads)

\* send_ was invoked for the call of t and has ended
DeliveryEnded(t) == pc[t] = "done" /\ deliv[t].invoked

\* C7: when send_ runs out of time, send returns false if no_tmoexcept_mode
\* is set and raises TimeoutExpired if not; send returns false in no other
\* case, and every call that ends without an error returns true.
C7_TimeoutReporting ==
  \A t \in Threads :
    /\ DeliveryEnded(t) =>
         result[t].kind = (IF res[t] THEN "true"
                           ELSE IF deliv[t].no_tmoexcept_mode THEN "false"
                           ELSE "TimeoutExpired")
    /\ (pc[t] = "done" /\ result[t].kind = "false") =>
         (deliv[t].invoked /\ deliv[t].no_tmoexcept_mode /\ ~res[t])
    /\ pc[t] = "done" =>
         result[t].kind \in {"true", "false", "NotReady", "InvalidArgument",
                             "TimeoutExpired"}

C7_Witness ==
  \E t \in Threads :
    /\ DeliveryEnded(t)
    /\ ~res[t]
    /\ deliv[t].no_tmoexcept_mode
    /\ result[t].kind = "false"
    /\ deliv[t].timeout = Ms(FiniteTimeout)

\* the fragment at position i of the stream ends a message of exactly two
\* fragments: one part flagged "more" before it, and a message boundary (or
\* the start of the stream) before that
EndsTwoPartMessage(frags, i) ==
  /\ i >= 2
  /\ frags[i - 1].more
  /\ (i = 2 \/ ~frags[i - 2].more)

\* C8: after any sequence of sends, retried attempts included, every message
\* the receiver gets is made of exactly two fragments, the metadata bytes and
\* then the payload bytes.
C8_TwoFragmentsPerMessage ==
  \A i \in 1..Len(chan) : ~chan[i].more => EndsTwoPartMessage(chan, i)

\* C9: with the no-block timeout and a channel that refuses, send_ makes
\* exactly one attempt and then reports timeout; with any timeout the loop
\* test is reached only after an attempt has been made.
C9_NoBlockTriesOnce ==
  \A t \in Threads :
    /\ (deliv[t].invoked /\ deliv[t].timeout = s_no_block) => attempts[t] <= 1
    /\ (DeliveryEnded(t) /\ deliv[t].timeout = s_no_block /\ ~res[t]) =>
         /\ attempts[t] = 1
         /\ result[t].kind \in {"false", "TimeoutExpired"}
    /\ (deliv[t].invoked /\ pc[t] \notin {"idle", "topic"}) => attempts[t] >= 1

C9_Witness ==
  \E t \in Threads :
    /\ DeliveryEnded(t)
    /\ deliv[t].timeout = s_no_block
    /\ ~res[t]
    /\ attempts[t] = 1
    /\ result[t].kind = "TimeoutExpired"
    /\ chan = <<>>

\* C10: with the block-forever timeout, send never reports timeout: it ends
\* only by succeeding.
C10_BlockForeverNeverTimesOut ==
  \A t \in Threads :
    (deliv[t].invoked /\ deliv[t].timeout = s_block) =>
      result[t].kind \notin {"false", "TimeoutExpired"}

\* C11: can_send() is true exactly when a connect_for_sends call has
\* completed successfully; a connect_for_sends whose bind fails leaves it
\* false.
C11_ReadyIffConnected == can_send <=> setup = "connected"

\* C12: once can_send() is true it stays true, whatever the sends that
\* follow end with.
C12_ReadyIsStable == [][m_socket_connected => m_socket_connected']_vars

C12_Witness ==
  \E t \in Threads :
    /\ m_socket_connected
    /\ DeliveryEnded(t)
    /\ result[t].kind = "TimeoutExpired"

\* elapsed (ns) < timeout (ms) as durations, with no limit on the width
ExactLess(elapsed, timeout) ==
  UnsignedLess(elapsed \o <<0, 0, 0>>, ExactNs(timeout), 11)

\* the time since start_time, as thread t reads it now
ElapsedNow(t) == Elapsed(now, start_time[t])

\* C13: send_ leaves its loop with failure only when the elapsed time has
\* reached the timeout, and starts another attempt only while the elapsed
\* time is below the timeout.
C13_LoopEndsAtDeadline ==
  [][\A t \in Threads :
       (pc[t] = "check" /\ pc'[t] # "check") =>
         /\ pc'[t] = "done" => ~ExactLess(ElapsedNow(t), deliv[t].timeout)
         /\ pc'[t] = "topic" => ExactLess(ElapsedNow(t), deliv[t].timeout)]_vars

\* C14: with the block-forever timeout the test `elapsed < timeout` of the
\* loop, made on 64-bit signed nanosecond counts, holds for every elapsed
\* time.
C14_BlockForeverTestHolds ==
  \A t \in Threads :
    (pc[t] = "check" /\ deliv[t].timeout = s_block) =>
      /\ SignedLess(ElapsedNow(t), WrappedNs(s_block))
      /\ \A less \in DurationLess(ElapsedNow(t), s_block) : less

\* C15: readiness is checked first: on a sender that is not ready, a send of
\* zero bytes fails with NotReady (it is no no-op success), and so does a
\* send with a null buffer and a non-zero size (it is no InvalidArgument).
C15_ReadinessCheckedFirst ==
  [][\A t \in Threads :
       (/\ Called(t)
        /\ ~m_socket_connected
        /\ (call'[t].N = 0 \/ call'[t].message = NULL))
         => /\ pc'[t] = "done"
            /\ result'[t].kind = "NotReady"
            /\ result'[t].kind \notin {"true", "InvalidArgument"}]_vars

C15_Witness ==
  \E t \in Threads :
    /\ pc[t] = "done"
    /\ ~m_socket_connected
    /\ call[t].N = 0
    /\ result[t].kind = "NotReady"

NamedAddress(desc) ==
  IF \E p \in desc : p[1] = "connection_string"
  THEN LET p == CHOOSE q \in desc : q[1] = "connection_string" IN p[2]
  ELSE "inproc://default"

\* C17: a connect_for_sends that completes binds the socket to the
\* descriptor's connection_string, or to "inproc://default" when the key is
\* absent, sets the socket's send timeout to 1 ms and leaves the backend
\* ready; once set up, no step (no send in particular) changes the stored
\* connection string.
C17_ConnectBindsAndConfigures ==
  [][/\ \A desc \in Descriptors :
          (connect_for_sends(desc) /\ setup' = "connected")
            => /\ socket_endpoint' = NamedAddress(desc)
               /\ m_connection_string' = NamedAddress(desc)
               /\ socket_sndtimeo' = 1
               /\ can_send'
     /\ setup # "none" => m_connection_string' = m_connection_string]_vars

\* a backend connected to the address its descriptor named has delivered a
\* message and still holds that address
C17_Witness ==
  /\ setup = "connected"
  /\ socket_endpoint = "tcp://127.0.0.1:5000"
  /\ m_connection_string = "tcp://127.0.0.1:5000"
  /\ socket_sndtimeo = 1
  /\ can_send
  /\ \E t \in Threads : pc[t] = "done" /\ result[t].kind = "true"

\* an int read back as a 64-bit count: the four bytes, sign-extended
SignExtend(field) ==
  field \o [i \in 1..4 |-> IF field[4] >= 128 THEN 255 ELSE 0]

\* C18: a TimeoutExpired failure reports the timeout the caller passed:
\* the value in the issue's int field, read back as a number, is the
\* timeout send_ ran with.
C18_ReportedTimeoutIsCallers ==
  \A t \in Threads :
    (pc[t] = "done" /\ result[t].kind = "TimeoutExpired")
      => SignExtend(result[t].timeout) = deliv[t].timeout

\* the last fragment the socket took is flagged as having more to follow
OpenMessage == chan # <<>> /\ chan[Len(chan)].more

\* C19: a delivery that ends in failure leaves no part of its message on
\* the channel: no topic fragment is waiting for a payload that will not
\* come.
C19_TimeoutLeavesNoFragment ==
  \A t \in Threads : (DeliveryEnded(t) /\ ~res[t]) => ~OpenMessage

\* C20: the last attempt alone decides how send_ ends: when the loop test is
\* reached after an attempt whose two parts were both accepted, send_ returns
\* normally, whether or not the deadline has passed; send_ ends in timeout
\* only after an attempt that failed.
C20_LastAttemptDecides ==
  [][\A t \in Threads :
       (pc[t] = "check" /\ pc'[t] # "check")
         => /\ res[t] => (pc'[t] = "add_bytes" /\ result'[t] = result[t])
            /\ pc'[t] = "done" => (~res[t] /\ result'[t].kind \in {"TimeoutExpired", "false"})]_vars

\* a send whose last attempt was accepted at the deadline, after an earlier
\* attempt was refused, has returned true
C20_Witness ==
  \E t \in Threads :
    /\ DeliveryEnded(t)
    /\ deliv[t].timeout = Ms(FiniteTimeout)
    /\ attempts[t] >= 2
    /\ res[t]
    /\ ~ExactLess(ElapsedNow(t), deliv[t].timeout)
    /\ result[t].kind = "true"

====
